---- MODULE Spec2Model ----
(***************************************************************************)
(* A model of the OctopOS file system (file_system.c): a flat directory    *)
(* kept in the first DIR_DATA_NUM_BLOCKS blocks of a partition, files laid *)
(* out as contiguous extents, a descriptor bitmap and a descriptor table.  *)
(*                                                                         *)
(* The block device is the function disk: block number -> block bytes.  A  *)
(* block file that does not exist reads as zeroes (read_blocks creates it  *)
(* zero-filled), so a blank device is the all-zero function.               *)
(*                                                                         *)
(* Scaling.  The sizes of the program are scaled down so that every byte   *)
(* of the device is part of the state: a block holds 4 bytes (512 in the   *)
(* program), the directory takes 32 blocks (2 in the program; the          *)
(* directory buffer holds 128 bytes instead of 1024), there are 8          *)
(* descriptors (64 in the program) and a uint32_t is WordBits wide (32 in  *)
(* the program).  The arithmetic of the code is kept: every uint32_t       *)
(* expression is reduced modulo 2^WordBits, the directory is encoded byte  *)
(* by byte in little-endian order.                                         *)
(***************************************************************************)
EXTENDS Integers, Sequences, FiniteSets, TLC

\* ---------------------------------------------------------------- constants
MAX_NUM_FD == 8
FILE_OPEN_MODE == 0
FILE_OPEN_CREATE_MODE == 1
STORAGE_BLOCK_SIZE == 4
DIR_DATA_NUM_BLOCKS == 32
DIR_DATA_SIZE == STORAGE_BLOCK_SIZE * DIR_DATA_NUM_BLOCKS
MAX_FILENAME_SIZE == 256
ERR_INVALID == 0 - 2
ERR_EXIST == 0 - 5
ERR_MEMORY == 0 - 6
ERR_FOUND == 0 - 7
\* width of uint32_t, scaled like the sizes above
WordBits == 6

\* ------------------------------------------------------------------- bounds
\* blocks of the data area: initialize is called with DIR_DATA_NUM_BLOCKS + DataBlocks
DataBlocks == 3
\* number of writes that store bytes in a run
MaxWrites == 3

UINT32_MOD == 2 ^ WordBits
PARTITION_BLOCKS == DIR_DATA_NUM_BLOCKS + DataBlocks
\* the block files a run can touch: a transfer of at most UINT32_MOD - 1
\* bytes starts inside the partition
NumDiskBlocks == PARTITION_BLOCKS + (UINT32_MOD \div STORAGE_BLOCK_SIZE) + 1

\* file names: NUL-terminated strings, as sequences of non-zero characters
Names == { <<97>>, <<98, 99>> }
\* sizes and offsets handed to read and write
\* the file names of the runs that use up the descriptors and the directory:
\* one more one-letter name than the directory has room for
FdNames == { << 97 + i >> : i \in 0 .. (DIR_DATA_SIZE - 6) \div 16 }
AllNames == Names \cup FdNames
Sizes == {0, 1, STORAGE_BLOCK_SIZE, UINT32_MOD - 1}
Offsets == {0, 1, STORAGE_BLOCK_SIZE}

\* ------------------------------------------------------------------ helpers
U32(x) == x % UINT32_MOD
Byte == 0 .. 255
Bit(b, j) == (b \div (2 ^ j)) % 2
SetBit(b, j) == IF Bit(b, j) = 1 THEN b ELSE b + 2 ^ j
ClearBit(b, j) == IF Bit(b, j) = 1 THEN b - 2 ^ j ELSE b
SetMin(S) == CHOOSE x \in S : \A y \in S : x <= y
SetMax(S) == CHOOSE x \in S : \A y \in S : x >= y

\* *((uint16_t *) &buf[off]) = v and its read, little-endian
Put16(buf, off, v) ==
  [buf EXCEPT ![off] = v % 256, ![off + 1] = (v \div 256) % 256]
Get16(buf, off) == buf[off] + 256 * buf[off + 1]

\* *((uint32_t *) &buf[off]) = v and its read, little-endian
Put32(buf, off, v) ==
  [buf EXCEPT ![off] = v % 256,
              ![off + 1] = (v \div 256) % 256,
              ![off + 2] = (v \div 65536) % 256,
              ![off + 3] = (v \div 16777216) % 256]
Get32(buf, off) ==
  U32(buf[off] + 256 * buf[off + 1] + 65536 * buf[off + 2]
      + 16777216 * buf[off + 3])

\* strcpy((char *) &buf[off], s): the characters of s and the terminating NUL
StrCpy(buf, off, s) ==
  [i \in DOMAIN buf |->
     IF i >= off /\ i < off + Len(s) THEN s[i - off + 1]
     ELSE IF i = off + Len(s) THEN 0
     ELSE buf[i]]

\* the C string at &buf[off]: the bytes up to (not including) the first NUL
RECURSIVE CStrAt(_, _)
CStrAt(buf, off) ==
  IF off \notin DOMAIN buf \/ buf[off] = 0 THEN << >>
  ELSE << buf[off] >> \o CStrAt(buf, off + 1)

ZeroBlock == [i \in 0 .. STORAGE_BLOCK_SIZE - 1 |-> 0]

\* ---------------------------------------------------------------- variables
VARIABLES
  partition_num_blocks,  \* uint32_t partition_num_blocks
  fd_bitmap,             \* uint8_t fd_bitmap[MAX_NUM_FD / 8]
  file_array,            \* struct file *file_array[MAX_NUM_FD]: index into file_list, 0 = NULL
  file_list,             \* the linked list file_list_head .. file_list_tail of struct file
  dir_data,              \* uint8_t dir_data[DIR_DATA_SIZE]
  dir_data_ptr,          \* int dir_data_ptr
  disk,                  \* the block device: block number -> block contents
  last,                  \* the last call: its arguments, return value and output buffer
  nwrites,               \* number of writes that stored bytes so far
  shadow,                \* history: for each file name, the bytes that writes reported as stored
  restarted              \* history: initialize ran after the last write that stored bytes

vars == << partition_num_blocks, fd_bitmap, file_array, file_list, dir_data,
           dir_data_ptr, disk, last, nwrites, shadow, restarted >>


\* ----------------------------------------------------------------- block I/O
\* the for loop of write_blocks, from block i on: block start_block + i
\* receives bytes [i * STORAGE_BLOCK_SIZE, (i + 1) * STORAGE_BLOCK_SIZE) of data
RECURSIVE write_blocks_from(_, _, _, _, _)
write_blocks_from(d, data, start_block, num_blocks, i) ==
  IF ~ (i < num_blocks) THEN d
  ELSE write_blocks_from(
         [d EXCEPT ![U32(start_block + i)] =
            [k \in 0 .. STORAGE_BLOCK_SIZE - 1 |-> data[i * STORAGE_BLOCK_SIZE + k]]],
         data, start_block, num_blocks, i + 1)

write_blocks(d, data, start_block, num_blocks) ==
  write_blocks_from(d, data, start_block, num_blocks, 0)

\* read_blocks: the bytes of num_blocks blocks from start_block on (a block
\* file that is missing is created zero-filled, which leaves d as it is)
read_blocks(d, start_block, num_blocks) ==
  [k \in 0 .. num_blocks * STORAGE_BLOCK_SIZE - 1 |->
     d[U32(start_block + (k \div STORAGE_BLOCK_SIZE))][k % STORAGE_BLOCK_SIZE]]

\* read_from_block: ret is the return value, data the bytes copied out
read_from_block(d, block_num, block_offset, read_size) ==
  IF U32(block_offset + read_size) > STORAGE_BLOCK_SIZE
  THEN [ret |-> 0, data |-> << >>]
  ELSE LET buf == read_blocks(d, block_num, 1)
       IN [ret |-> read_size,
           data |-> [i \in 1 .. read_size |-> buf[block_offset + i - 1]]]

\* write_to_block: data[from ..] is the source (&data[written_size] in the caller)
write_to_block(d, data, from, block_num, block_offset, write_size) ==
  IF U32(block_offset + write_size) > STORAGE_BLOCK_SIZE
  THEN [ret |-> 0, disk |-> d]
  ELSE LET old == read_blocks(d, block_num, 1)
           buf == [k \in 0 .. STORAGE_BLOCK_SIZE - 1 |->
                     IF k >= block_offset /\ k < block_offset + write_size
                     THEN data[from + (k - block_offset)]
                     ELSE old[k]]
       IN [ret |-> write_size, disk |-> write_blocks(d, buf, block_num, 1)]

flush_dir_data_to_storage(d, dir) == write_blocks(d, dir, 0, DIR_DATA_NUM_BLOCKS)

read_dir_data_from_storage(d) == read_blocks(d, 0, DIR_DATA_NUM_BLOCKS)

\* ----------------------------------------------------------------- directory
\* update_file_in_directory that advances by filename_size, not
\* filename_size + 1, after the strcpy: start_block overwrites the NUL
update_file_in_directory_no_nul(dir, f) ==
  LET off == f.dir_data_off
      filename_size == Len(f.filename)
  IN IF filename_size > MAX_FILENAME_SIZE THEN [ret |-> ERR_INVALID, dir |-> dir]
     ELSE IF off + filename_size + 15 > DIR_DATA_SIZE THEN [ret |-> ERR_MEMORY, dir |-> dir]
     ELSE LET d1 == Put16(dir, off, filename_size)
              d2 == StrCpy(d1, off + 2, f.filename)
              d3 == Put32(d2, off + 2 + filename_size, f.start_block)
              d4 == Put32(d3, off + 2 + filename_size + 4, f.num_blocks)
              d5 == Put32(d4, off + 2 + filename_size + 8, f.size)
          IN [ret |-> 0, dir |-> d5]

\* update_file_in_directory: re-encode the record of f at f.dir_data_off
update_file_in_directory(dir, f) ==
  LET off == f.dir_data_off
      filename_size == Len(f.filename)
  IN IF filename_size > MAX_FILENAME_SIZE THEN [ret |-> ERR_INVALID, dir |-> dir]
     ELSE IF off + filename_size + 15 > DIR_DATA_SIZE THEN [ret |-> ERR_MEMORY, dir |-> dir]
     ELSE LET d1 == Put16(dir, off, filename_size)
              d2 == StrCpy(d1, off + 2, f.filename)
              d3 == Put32(d2, off + 2 + filename_size + 1, f.start_block)
              d4 == Put32(d3, off + 2 + filename_size + 1 + 4, f.num_blocks)
              d5 == Put32(d4, off + 2 + filename_size + 1 + 8, f.size)
          IN [ret |-> 0, dir |-> d5]

\* add_file_to_directory that counts the file before it encodes the record
add_file_to_directory_counts_first(dir, ptr, d, f) ==
  LET f1 == [f EXCEPT !.dir_data_off = ptr]
      dir1 == Put16(dir, 4, (Get16(dir, 4) + 1) % 65536)
      u == update_file_in_directory(dir1, f1)
  IN IF u.ret # 0
     THEN [ret |-> u.ret, dir |-> dir1, ptr |-> ptr, disk |-> d, file |-> f1]
     ELSE [ret |-> 0, dir |-> u.dir, ptr |-> ptr + Len(f.filename) + 15,
           disk |-> flush_dir_data_to_storage(d, u.dir), file |-> f1]

\* add_file_to_directory that advances dir_data_ptr without the NUL byte
add_file_to_directory_short_advance(dir, ptr, d, f) ==
  LET f1 == [f EXCEPT !.dir_data_off = ptr]
      u == update_file_in_directory(dir, f1)
  IN IF u.ret # 0
     THEN [ret |-> u.ret, dir |-> dir, ptr |-> ptr, disk |-> d, file |-> f1]
     ELSE LET dir2 == Put16(u.dir, 4, (Get16(u.dir, 4) + 1) % 65536)
          IN [ret |-> 0, dir |-> dir2, ptr |-> ptr + Len(f.filename) + 14,
              disk |-> flush_dir_data_to_storage(d, dir2), file |-> f1]

\* add_file_to_directory without the flush to the device
add_file_to_directory_no_flush(dir, ptr, d, f) ==
  LET f1 == [f EXCEPT !.dir_data_off = ptr]
      u == update_file_in_directory(dir, f1)
  IN IF u.ret # 0
     THEN [ret |-> u.ret, dir |-> dir, ptr |-> ptr, disk |-> d, file |-> f1]
     ELSE LET dir2 == Put16(u.dir, 4, (Get16(u.dir, 4) + 1) % 65536)
          IN [ret |-> 0, dir |-> dir2, ptr |-> ptr + Len(f.filename) + 15,
              disk |-> d, file |-> f1]

\* add_file_to_directory: append the record of f at dir_data_ptr and flush
add_file_to_directory(dir, ptr, d, f) ==
  LET f1 == [f EXCEPT !.dir_data_off = ptr]
      u == update_file_in_directory(dir, f1)
  IN IF u.ret # 0
     THEN [ret |-> u.ret, dir |-> dir, ptr |-> ptr, disk |-> d, file |-> f1]
     ELSE LET dir2 == Put16(u.dir, 4, (Get16(u.dir, 4) + 1) % 65536)
          IN [ret |-> 0, dir |-> dir2, ptr |-> ptr + Len(f.filename) + 15,
              disk |-> flush_dir_data_to_storage(d, dir2), file |-> f1]


\* ----------------------------------------------------------------- allocator
\* the zero_buf loops of expand_existing_file and expand_empty_file, from
\* block i on
RECURSIVE zero_out_blocks_from(_, _, _, _)
zero_out_blocks_from(d, start_block, needed_blocks, i) ==
  IF ~ (i < needed_blocks) THEN d
  ELSE zero_out_blocks_from(write_blocks(d, ZeroBlock, U32(start_block + i), 1),
                            start_block, needed_blocks, i + 1)

zero_out_blocks(d, start_block, needed_blocks) ==
  zero_out_blocks_from(d, start_block, needed_blocks, 0)

\* expand_existing_file without the walk over the list for a file that starts
\* in the tail range
expand_existing_file_unchecked(fl, idx, needed_blocks, d, pnb) ==
  LET file == fl[idx]
      tail == U32(file.start_block + file.num_blocks)
      tail_end == U32(file.start_block + file.num_blocks + needed_blocks)
  IN IF tail_end >= pnb
     THEN [ret |-> ERR_FOUND, fl |-> fl, disk |-> d]
     ELSE [ret |-> 0,
           fl |-> [fl EXCEPT ![idx].num_blocks = U32(file.num_blocks + needed_blocks)],
           disk |-> zero_out_blocks(d, tail, needed_blocks)]

\* expand_existing_file that zeroes the blocks and adds them to num_blocks
\* before it compares with partition_num_blocks
expand_existing_file_early_update(fl, idx, needed_blocks, d, pnb) ==
  LET file == fl[idx]
      tail == U32(file.start_block + file.num_blocks)
      tail_end == U32(file.start_block + file.num_blocks + needed_blocks)
      found == ~ \E n \in 1 .. Len(fl) :
                   fl[n].start_block >= tail /\ fl[n].start_block < tail_end
      grown == [fl EXCEPT ![idx].num_blocks = U32(file.num_blocks + needed_blocks)]
  IN IF found
     THEN [ret |-> IF tail_end >= pnb THEN ERR_FOUND ELSE 0,
           fl |-> grown, disk |-> zero_out_blocks(d, tail, needed_blocks)]
     ELSE [ret |-> ERR_FOUND, fl |-> fl, disk |-> d]

\* expand_existing_file: grow file fl[idx] by needed_blocks at its tail
expand_existing_file(fl, idx, needed_blocks, d, pnb) ==
  LET file == fl[idx]
      tail == U32(file.start_block + file.num_blocks)
      tail_end == U32(file.start_block + file.num_blocks + needed_blocks)
      found == ~ \E n \in 1 .. Len(fl) :
                   fl[n].start_block >= tail /\ fl[n].start_block < tail_end
  IN IF found
     THEN IF tail_end >= pnb
          THEN [ret |-> ERR_FOUND, fl |-> fl, disk |-> d]
          ELSE [ret |-> 0,
                fl |-> [fl EXCEPT ![idx].num_blocks = U32(file.num_blocks + needed_blocks)],
                disk |-> zero_out_blocks(d, tail, needed_blocks)]
     ELSE [ret |-> ERR_FOUND, fl |-> fl, disk |-> d]

\* the list walk of expand_empty_file that takes the end of the last record
empty_start_block_of_last(fl, n, start_block) ==
  IF Len(fl) = 0 \/ fl[Len(fl)].num_blocks = 0 THEN start_block
  ELSE U32(fl[Len(fl)].start_block + fl[Len(fl)].num_blocks)

\* the list walk of expand_empty_file, from node n on
RECURSIVE empty_start_block(_, _, _)
empty_start_block(fl, n, start_block) ==
  IF n > Len(fl) THEN start_block
  ELSE empty_start_block(fl, n + 1,
         IF fl[n].start_block >= start_block
         THEN U32(fl[n].start_block + fl[n].num_blocks)
         ELSE start_block)

\* expand_empty_file without the comparison with partition_num_blocks
expand_empty_file_unbounded(fl, idx, needed_blocks, d, pnb) ==
  LET start_block == empty_start_block(fl, 1, DIR_DATA_NUM_BLOCKS)
  IN [ret |-> 0,
      fl |-> [fl EXCEPT ![idx].start_block = start_block,
                        ![idx].num_blocks = needed_blocks],
      disk |-> zero_out_blocks(d, start_block, needed_blocks)]

\* expand_empty_file: give the empty file fl[idx] its first extent
expand_empty_file(fl, idx, needed_blocks, d, pnb) ==
  LET start_block == empty_start_block(fl, 1, DIR_DATA_NUM_BLOCKS)
  IN IF U32(start_block + needed_blocks) >= pnb
     THEN [ret |-> ERR_FOUND, fl |-> fl, disk |-> d]
     ELSE [ret |-> 0,
           fl |-> [fl EXCEPT ![idx].start_block = start_block,
                             ![idx].num_blocks = needed_blocks],
           disk |-> zero_out_blocks(d, start_block, needed_blocks)]

\* blocks_needed without the increment for a partial last block
blocks_needed_rounded_down(needed_size) == needed_size \div STORAGE_BLOCK_SIZE

\* needed_blocks of expand_file_size: needed_size in blocks, rounded up
blocks_needed(needed_size) ==
  (needed_size \div STORAGE_BLOCK_SIZE)
  + (IF needed_size % STORAGE_BLOCK_SIZE # 0 THEN 1 ELSE 0)

\* expand_file_size: make fl[idx] size bytes long
expand_file_size(fl, idx, size, dir, d, pnb) ==
  LET file == fl[idx]
      unchanged(r) == [ret |-> r, fl |-> fl, dir |-> dir, disk |-> d]
      update(fl1, d1) ==
        LET fl2 == [fl1 EXCEPT ![idx].size = size]
            u == update_file_in_directory(dir, fl2[idx])
        IN [ret |-> u.ret, fl |-> fl2, dir |-> u.dir,
            disk |-> flush_dir_data_to_storage(d1, u.dir)]
      needed_size == IF file.size = 0 THEN size ELSE U32(size - file.size)
      leftover == STORAGE_BLOCK_SIZE - (file.size % STORAGE_BLOCK_SIZE)
      needed_blocks == blocks_needed(needed_size)
      e == IF file.size = 0
           THEN expand_empty_file(fl, idx, needed_blocks, d, pnb)
           ELSE expand_existing_file(fl, idx, needed_blocks, d, pnb)
  IN IF file.size >= size THEN unchanged(0)
     ELSE IF leftover # STORAGE_BLOCK_SIZE /\ leftover >= needed_size THEN update(fl, d)
     ELSE IF e.ret = 0 THEN update(e.fl, e.disk)
     ELSE [ret |-> e.ret, fl |-> e.fl, dir |-> dir, disk |-> e.disk]

\* ---------------------------------------------------------- descriptor bitmap
\* get_unused_fd: the lowest clear bit k is set and k + 1 returned
get_unused_fd(bm) ==
  LET clear == {k \in 0 .. MAX_NUM_FD - 1 : Bit(bm[k \div 8], k % 8) = 0}
  IN IF clear = {} THEN [ret |-> ERR_EXIST, bm |-> bm]
     ELSE LET k == SetMin(clear)
          IN [ret |-> k + 1, bm |-> [bm EXCEPT ![k \div 8] = SetBit(@, k % 8)]]

\* mark_fd_as_unused without the fd = _fd - 1 adjustment
mark_fd_as_unused_no_adjust(bm, _fd) ==
  IF _fd >= MAX_NUM_FD THEN bm
  ELSE [bm EXCEPT ![_fd \div 8] = ClearBit(@, _fd % 8)]

\* mark_fd_as_unused: clear bit _fd - 1
mark_fd_as_unused(bm, _fd) ==
  LET fd == _fd - 1
  IN IF fd >= MAX_NUM_FD THEN bm
     ELSE [bm EXCEPT ![fd \div 8] = ClearBit(@, fd % 8)]


\* ----------------------------------------------------------------------- API
\* lookup_file that does not look at the opened flag
lookup_file_ignoring_opened(fl, filename) ==
  LET matches == {n \in 1 .. Len(fl) : fl[n].filename = filename}
  IN [opened |-> FALSE,
      idx |-> IF matches = {} THEN 0 ELSE SetMax(matches)]

\* the list walk of file_system_open_file: opened when a record with that
\* name is open (the call returns 0), else idx is the last record with that
\* name, 0 for none
lookup_file(fl, filename) ==
  LET matches == {n \in 1 .. Len(fl) : fl[n].filename = filename}
  IN [opened |-> \E n \in matches : fl[n].opened,
      idx |-> IF matches = {} THEN 0 ELSE SetMax(matches)]

\* file_system_open_file.  garbage is the value the malloc'ed struct file
\* holds in its opened field, which the create path does not initialize.
file_system_open_file(filename, mode, garbage, fl, fa, bm, dir, ptr, d) ==
  LET result(r, fl1, fa1, bm1, dir1, ptr1, d1) ==
        [ret |-> r, fl |-> fl1, fa |-> fa1, bm |-> bm1, dir |-> dir1,
         ptr |-> ptr1, disk |-> d1]
      found == lookup_file(fl, filename)
      \* if (file): allocate a descriptor for fl1[idx]
      install(idx, fl1, dir1, ptr1, d1) ==
        LET g == get_unused_fd(bm)
            fd == g.ret
        IN IF g.ret < 0 THEN result(0, fl1, fa, g.bm, dir1, ptr1, d1)
           ELSE IF fd = 0 \/ fd >= MAX_NUM_FD THEN result(0, fl1, fa, g.bm, dir1, ptr1, d1)
           ELSE IF fa[fd] # 0 THEN result(0, fl1, fa, g.bm, dir1, ptr1, d1)
           ELSE result(fd, [fl1 EXCEPT ![idx].opened = TRUE],
                       [fa EXCEPT ![fd] = idx], g.bm, dir1, ptr1, d1)
      newfile == [filename |-> filename, start_block |-> 0, num_blocks |-> 0,
                  size |-> 0, dir_data_off |-> 0, opened |-> garbage]
      a == add_file_to_directory(dir, ptr, d, newfile)
  IN IF ~ (mode = FILE_OPEN_MODE \/ mode = FILE_OPEN_CREATE_MODE)
     THEN result(0, fl, fa, bm, dir, ptr, d)
     ELSE IF found.opened
     THEN result(0, fl, fa, bm, dir, ptr, d)
     ELSE IF found.idx = 0 /\ mode = FILE_OPEN_CREATE_MODE
     THEN IF a.ret # 0
          THEN result(0, fl, fa, bm, a.dir, a.ptr, a.disk)
          ELSE install(Len(fl) + 1, Append(fl, a.file), a.dir, a.ptr, a.disk)
     ELSE IF found.idx # 0
     THEN install(found.idx, fl, dir, ptr, d)
     ELSE result(0, fl, fa, bm, dir, ptr, d)

\* the while loop of file_system_write_to_file
RECURSIVE write_loop(_, _, _, _, _, _, _, _)
write_loop(d, data, start_block, block_num, block_offset, next_write_size, written_size, size) ==
  IF ~ (written_size < size) THEN [ret |-> written_size, disk |-> d]
  ELSE LET w == write_to_block(d, data, written_size, U32(start_block + block_num),
                               block_offset, next_write_size)
           ws == U32(written_size + next_write_size)
       IN IF w.ret # next_write_size
          THEN [ret |-> U32(written_size + w.ret), disk |-> w.disk]
          ELSE write_loop(w.disk, data, start_block, U32(block_num + 1), 0,
                          IF U32(size - ws) >= STORAGE_BLOCK_SIZE
                          THEN STORAGE_BLOCK_SIZE ELSE U32(size - ws),
                          ws, size)

\* the clamp without the subtraction of offset
clamp_size_no_offset(file_size, size, offset) ==
  IF file_size < U32(offset + size) THEN file_size ELSE size

\* the clamp of the transfer size ("partial write", "partial read")
clamp_size(file_size, size, offset) ==
  IF file_size < U32(offset + size) THEN U32(file_size - offset) ELSE size

\* the offset test that lets a write grow a file from anywhere
offset_past_end_never(file_size, size, offset) == FALSE

\* the test for a write that would leave a hole: it needs the file to grow and
\* starts beyond its end
offset_past_end(file_size, size, offset) ==
  file_size < U32(offset + size) /\ offset > file_size

\* file_system_write_to_file; data is the caller's buffer, indexed from 0
file_system_write_to_file(fd, data, size, offset, fl, fa, dir, d, pnb) ==
  LET result(r, fl1, dir1, d1) == [ret |-> r, fl |-> fl1, dir |-> dir1, disk |-> d1]
      idx == fa[fd]
      file == fl[idx]
      e == IF file.size < U32(offset + size)
           THEN expand_file_size(fl, idx, U32(offset + size), dir, d, pnb)
           ELSE [ret |-> 0, fl |-> fl, dir |-> dir, disk |-> d]
      file1 == e.fl[idx]
      sz == clamp_size(file1.size, size, offset)
      block_offset == offset % STORAGE_BLOCK_SIZE
      first == STORAGE_BLOCK_SIZE - block_offset
      w == write_loop(e.disk, data, file1.start_block, offset \div STORAGE_BLOCK_SIZE,
                      block_offset, IF first > sz THEN sz ELSE first, 0, sz)
  IN IF fd = 0 \/ fd >= MAX_NUM_FD THEN result(0, fl, dir, d)
     ELSE IF idx = 0 THEN result(0, fl, dir, d)
     ELSE IF ~ file.opened THEN result(0, fl, dir, d)
     ELSE IF offset_past_end(file.size, size, offset) THEN result(0, fl, dir, d)
     ELSE IF offset >= file1.size THEN result(0, e.fl, e.dir, e.disk)
     ELSE result(w.ret, e.fl, e.dir, w.disk)

\* the while loop of file_system_read_from_file; data is what was copied so far
RECURSIVE read_loop(_, _, _, _, _, _, _)
read_loop(d, data, start_block, block_num, block_offset, next_read_size, size) ==
  IF ~ (Len(data) < size) THEN [ret |-> Len(data), data |-> data]
  ELSE LET r == read_from_block(d, U32(start_block + block_num), block_offset,
                                next_read_size)
           rs == U32(Len(data) + next_read_size)
       IN IF r.ret # next_read_size
          THEN [ret |-> U32(Len(data) + r.ret), data |-> data \o r.data]
          ELSE read_loop(d, data \o r.data, start_block, U32(block_num + 1), 0,
                         IF U32(size - rs) >= STORAGE_BLOCK_SIZE
                         THEN STORAGE_BLOCK_SIZE ELSE U32(size - rs),
                         size)

\* file_system_read_from_file: ret and the bytes stored into the caller's buffer
file_system_read_from_file(fd, size, offset, fl, fa, d) ==
  LET idx == fa[fd]
      file == fl[idx]
      sz == clamp_size(file.size, size, offset)
      block_offset == offset % STORAGE_BLOCK_SIZE
      first == STORAGE_BLOCK_SIZE - block_offset
  IN IF fd = 0 \/ fd >= MAX_NUM_FD THEN [ret |-> 0, data |-> << >>]
     ELSE IF idx = 0 THEN [ret |-> 0, data |-> << >>]
     ELSE IF ~ file.opened THEN [ret |-> 0, data |-> << >>]
     ELSE IF offset >= file.size THEN [ret |-> 0, data |-> << >>]
     ELSE read_loop(d, << >>, file.start_block, offset \div STORAGE_BLOCK_SIZE,
                    block_offset, IF first > sz THEN sz ELSE first, sz)

\* file_system_close_file that leaves the record marked as opened
file_system_close_file_keeps_opened(fd, fl, fa, bm) ==
  LET idx == fa[fd]
  IN IF fd = 0 \/ fd >= MAX_NUM_FD THEN [ret |-> ERR_INVALID, fl |-> fl, fa |-> fa, bm |-> bm]
     ELSE IF idx = 0 THEN [ret |-> ERR_INVALID, fl |-> fl, fa |-> fa, bm |-> bm]
     ELSE IF ~ fl[idx].opened THEN [ret |-> ERR_INVALID, fl |-> fl, fa |-> fa, bm |-> bm]
     ELSE [ret |-> 0, fl |-> fl,
           fa |-> [fa EXCEPT ![fd] = 0], bm |-> mark_fd_as_unused(bm, fd)]

\* file_system_close_file
file_system_close_file(fd, fl, fa, bm) ==
  LET idx == fa[fd]
  IN IF fd = 0 \/ fd >= MAX_NUM_FD THEN [ret |-> ERR_INVALID, fl |-> fl, fa |-> fa, bm |-> bm]
     ELSE IF idx = 0 THEN [ret |-> ERR_INVALID, fl |-> fl, fa |-> fa, bm |-> bm]
     ELSE IF ~ fl[idx].opened THEN [ret |-> ERR_INVALID, fl |-> fl, fa |-> fa, bm |-> bm]
     ELSE [ret |-> 0, fl |-> [fl EXCEPT ![idx].opened = FALSE],
           fa |-> [fa EXCEPT ![fd] = 0], bm |-> mark_fd_as_unused(bm, fd)]

\* the record loop of initialize_file_system, from record i on
RECURSIVE parse_directory(_, _, _, _, _)
parse_directory(dir, i, num_files, ptr, fl) ==
  IF ~ (i < num_files) THEN [ptr |-> ptr, fl |-> fl]
  ELSE IF ptr + 2 > DIR_DATA_SIZE THEN [ptr |-> ptr, fl |-> fl]
  ELSE LET filename_size == Get16(dir, ptr)
           name_end == ptr + 2 + filename_size + 1
           file == [filename |-> CStrAt(dir, ptr + 2),
                    start_block |-> Get32(dir, name_end),
                    num_blocks |-> Get32(dir, name_end + 4),
                    size |-> Get32(dir, name_end + 8),
                    dir_data_off |-> ptr,
                    opened |-> FALSE]
       IN IF ptr + filename_size + 15 > DIR_DATA_SIZE THEN [ptr |-> ptr, fl |-> fl]
          ELSE IF filename_size > MAX_FILENAME_SIZE THEN [ptr |-> ptr + 2, fl |-> fl]
          ELSE parse_directory(dir, i + 1, num_files, name_end + 12, Append(fl, file))

\* initialize_file_system on the device d
initialize_file_system(_partition_num_blocks, d) ==
  LET dir0 == read_dir_data_from_storage(d)
      valid == dir0[0] = 36 /\ dir0[1] = 37 /\ dir0[2] = 94 /\ dir0[3] = 38
      p == parse_directory(dir0, 0, Get16(dir0, 4), 6, << >>)
      fresh == [k \in DOMAIN dir0 |->
                  IF k = 0 THEN 36 ELSE IF k = 1 THEN 37 ELSE IF k = 2 THEN 94
                  ELSE IF k = 3 THEN 38 ELSE IF k = 4 \/ k = 5 THEN 0 ELSE dir0[k]]
  IN [pnb |-> _partition_num_blocks,
      bm |-> [i \in 0 .. (MAX_NUM_FD \div 8) - 1 |-> IF i = 0 THEN 1 ELSE 0],
      fa |-> [i \in 0 .. MAX_NUM_FD - 1 |-> 0],
      fl |-> IF valid THEN p.fl ELSE << >>,
      dir |-> IF valid THEN dir0 ELSE fresh,
      ptr |-> IF valid THEN p.ptr ELSE 6,
      disk |-> IF valid THEN d ELSE flush_dir_data_to_storage(d, fresh)]


\* ------------------------------------------------------------------- inputs
Modes == {FILE_OPEN_MODE, FILE_OPEN_CREATE_MODE, 2}
\* descriptors handed to read, write and close: 0, the ones open can return
\* for the files of Names, and MAX_NUM_FD
Fds == (0 .. Cardinality(Names) + 1) \cup {MAX_NUM_FD}
\* the buffer handed to write: size non-zero bytes, indexed from 0; its period
\* is prime to the block size, so that the same byte of the buffer does not
\* land on the same byte of a file from two of Offsets
WriteData(size) == [i \in 0 .. size - 1 |-> 1 + (i % 5)]

BlankDisk == [b \in 0 .. NumDiskBlocks - 1 |-> ZeroBlock]

NoCall == [op |-> "none", name |-> << >>, mode |-> 0, fd |-> 0, size |-> 0,
           offset |-> 0, ret |-> 0, data |-> << >>]

\* the bytes of s with n bytes of data stored at offset
Overlay(s, offset, data, n) ==
  LET len == IF Len(s) > offset + n THEN Len(s) ELSE offset + n
  IN [i \in 1 .. len |->
        IF i - 1 >= offset /\ i - 1 < offset + n THEN data[i - 1 - offset]
        ELSE IF i <= Len(s) THEN s[i] ELSE 0]

\* ------------------------------------------------------------ state machine
\* the program after its first initialize_file_system(PARTITION_BLOCKS) on a
\* blank device
Init ==
  LET i == initialize_file_system(PARTITION_BLOCKS, BlankDisk)
  IN /\ partition_num_blocks = i.pnb
     /\ fd_bitmap = i.bm
     /\ file_array = i.fa
     /\ file_list = i.fl
     /\ dir_data = i.dir
     /\ dir_data_ptr = i.ptr
     /\ disk = i.disk
     /\ last = [NoCall EXCEPT !.op = "initialize"]
     /\ nwrites = 0
     /\ shadow = [n \in AllNames |-> << >>]
     /\ restarted = FALSE

\* read and write return before they look at size and offset when fd is not an
\* open descriptor: one pair of them is enough there
Probe(fd, size, offset) ==
  \/ fd \in 1 .. MAX_NUM_FD - 1 /\ file_array[fd] # 0
  \/ size = 1 /\ offset = 0

Open(filename, mode) ==
  /\ last.op = "none"
  /\ \E garbage \in BOOLEAN :
    LET r == file_system_open_file(filename, mode, garbage, file_list, file_array,
                                   fd_bitmap, dir_data, dir_data_ptr, disk)
    IN /\ file_list' = r.fl
       /\ file_array' = r.fa
       /\ fd_bitmap' = r.bm
       /\ dir_data' = r.dir
       /\ dir_data_ptr' = r.ptr
       /\ disk' = r.disk
       /\ last' = [NoCall EXCEPT !.op = "open", !.name = filename, !.mode = mode,
                                 !.ret = r.ret]
       /\ UNCHANGED << partition_num_blocks, nwrites, shadow, restarted >>

Write(fd, size, offset) ==
  /\ last.op = "none"
  /\ Probe(fd, size, offset)
  /\ nwrites < MaxWrites
  /\ LET data == WriteData(size)
         r == file_system_write_to_file(fd, data, size, offset, file_list, file_array,
                                        dir_data, disk, partition_num_blocks)
     IN /\ file_list' = r.fl
        /\ dir_data' = r.dir
        /\ disk' = r.disk
        /\ last' = [NoCall EXCEPT !.op = "write", !.fd = fd, !.size = size,
                                  !.offset = offset, !.ret = r.ret]
        /\ nwrites' = IF r.ret > 0 THEN nwrites + 1 ELSE nwrites
        /\ shadow' = IF r.ret > 0
                     THEN [shadow EXCEPT ![file_list[file_array[fd]].filename] =
                             Overlay(@, offset, data, r.ret)]
                     ELSE shadow
        /\ restarted' = IF r.ret > 0 THEN FALSE ELSE restarted
  /\ UNCHANGED << partition_num_blocks, fd_bitmap, file_array, dir_data_ptr >>

Read(fd, size, offset) ==
  /\ last.op = "none"
  /\ Probe(fd, size, offset)
  /\ LET r == file_system_read_from_file(fd, size, offset, file_list, file_array, disk)
     IN last' = [NoCall EXCEPT !.op = "read", !.fd = fd, !.size = size,
                               !.offset = offset, !.ret = r.ret, !.data = r.data]
  /\ UNCHANGED << partition_num_blocks, fd_bitmap, file_array, file_list, dir_data,
                  dir_data_ptr, disk, nwrites, shadow, restarted >>

Close(fd) ==
  /\ last.op = "none"
  /\ LET r == file_system_close_file(fd, file_list, file_array, fd_bitmap)
     IN /\ file_list' = r.fl
        /\ file_array' = r.fa
        /\ fd_bitmap' = r.bm
        /\ last' = [NoCall EXCEPT !.op = "close", !.fd = fd, !.ret = r.ret]
  /\ UNCHANGED << partition_num_blocks, dir_data, dir_data_ptr, disk, nwrites, shadow, restarted >>

\* close_file_system
Shutdown ==
  /\ last.op = "none"
  /\ disk' = flush_dir_data_to_storage(disk, dir_data)
  /\ last' = [NoCall EXCEPT !.op = "shutdown"]
  /\ UNCHANGED << partition_num_blocks, fd_bitmap, file_array, file_list, dir_data,
                  dir_data_ptr, nwrites, shadow, restarted >>

\* initialize_file_system(PARTITION_BLOCKS) on the device as it is
Initialize ==
  /\ last.op = "none"
  /\ LET i == initialize_file_system(PARTITION_BLOCKS, disk)
     IN /\ partition_num_blocks' = i.pnb
        /\ fd_bitmap' = i.bm
        /\ file_array' = i.fa
        /\ file_list' = i.fl
        /\ dir_data' = i.dir
        /\ dir_data_ptr' = i.ptr
        /\ disk' = i.disk
  /\ last' = [NoCall EXCEPT !.op = "initialize"]
  /\ restarted' = TRUE
  /\ UNCHANGED << nwrites, shadow >>

\* The calls are synchronous (one caller, no re-entrance): the caller takes the
\* result of a call before it makes the next one.
Return ==
  /\ last.op # "none"
  /\ last' = NoCall
  /\ UNCHANGED << partition_num_blocks, fd_bitmap, file_array, file_list, dir_data,
                  dir_data_ptr, disk, nwrites, shadow, restarted >>

Next ==
  \/ \E filename \in Names, mode \in Modes : Open(filename, mode)
  \/ \E fd \in Fds, size \in Sizes, offset \in Offsets : Write(fd, size, offset)
  \/ \E fd \in Fds, size \in Sizes, offset \in Offsets : Read(fd, size, offset)
  \/ \E fd \in Fds : Close(fd)
  \/ Shutdown
  \/ Initialize
  \/ Return

Spec == Init /\ [][Next]_vars

\* ---------------------------------------- runs with many files (descriptors,
\* directory capacity).  The caller creates the files of FdNames in the order
\* of their names, each one while it holds a descriptor for every file but
\* the one it created last; of the files it holds no descriptor for, it opens
\* the one with the lowest name or the one it created last; of the descriptors
\* it holds, it closes the highest; it writes one block, once, to the file it
\* created first.
Exists(filename) == \E n \in 1 .. Len(file_list) : file_list[n].filename = filename
Held(filename) ==
  \E d \in 1 .. MAX_NUM_FD - 1 :
    file_array[d] # 0 /\ file_list[file_array[d]].filename = filename
InOrder(filename) ==
  LET free == {n \in FdNames : Exists(n) /\ ~ Held(n)}
      created_last(n) == n = file_list[Len(file_list)].filename
  IN /\ \A n \in FdNames : n[1] < filename[1] => Exists(n)
     /\ ~ Held(filename)
     /\ IF Exists(filename)
        THEN \/ \A n \in free : filename[1] <= n[1]
             \/ created_last(filename)
        ELSE \A n \in free : created_last(n)
LastOpened(fd) ==
  IF fd \in {0, MAX_NUM_FD} THEN TRUE
  ELSE /\ file_array[fd] # 0
       /\ \A d \in 1 .. MAX_NUM_FD - 1 : d > fd => file_array[d] = 0
\* descriptors passed to read and write in these runs: the first and the last
\* that open returns
FdFds == {2, MAX_NUM_FD - 1}

OpenInOrder(filename, mode) == InOrder(filename) /\ Open(filename, mode)
CloseLastOpened(fd) == LastOpened(fd) /\ Close(fd)
WriteOnce(fd) ==
  /\ nwrites = 0
  /\ file_array[fd] \in {0, 1}
  /\ Write(fd, STORAGE_BLOCK_SIZE, 0)

NextFd ==
  \/ \E filename \in FdNames, mode \in {FILE_OPEN_MODE, FILE_OPEN_CREATE_MODE} :
       OpenInOrder(filename, mode)
  \/ \E fd \in FdFds : WriteOnce(fd)
  \/ \E fd \in FdFds : Read(fd, STORAGE_BLOCK_SIZE, 0)
  \/ \E fd \in 0 .. MAX_NUM_FD : CloseLastOpened(fd)
  \/ Initialize
  \/ Return

SpecFd == Init /\ [][NextFd]_vars


\* ------------------------------------------------------------------- claims
\* fd is an open descriptor
IsOpen(fd) ==
  /\ fd \in 1 .. MAX_NUM_FD - 1
  /\ file_array[fd] # 0
  /\ file_list[file_array[fd]].opened
\* the record behind the open descriptor fd
FileOf(fd) == file_list[file_array[fd]]
\* the byte at position pos of the file f on the device
FileByte(f, pos) ==
  disk[f.start_block + (pos \div STORAGE_BLOCK_SIZE)][pos % STORAGE_BLOCK_SIZE]
MinOf(a, b) == IF a < b THEN a ELSE b
ExtentEnd(f) == f.start_block + f.num_blocks
NonEmpty == {n \in 1 .. Len(file_list) : file_list[n].num_blocks > 0}

\* C1 (read-after-write): a read on an open file returns 0 bytes when
\* offset >= file.size and otherwise exactly min(size, file.size - offset)
\* bytes, each of them the byte that the writes to that file reported as
\* stored at that position.
C1_ReadAfterWrite ==
  (last.op = "read" /\ IsOpen(last.fd)) =>
    LET f == FileOf(last.fd)
    IN IF last.offset >= f.size
       THEN last.ret = 0
       ELSE /\ last.ret = MinOf(last.size, f.size - last.offset)
            /\ Len(last.data) = last.ret
            /\ \A i \in 1 .. last.ret :
                 /\ last.offset + i <= Len(shadow[f.filename])
                 /\ last.data[i] = shadow[f.filename][last.offset + i]

\* C2 (persistence): after a restart every file created before it opens with
\* mode OPEN (unless it is open already), and a read at offset 0 for the size
\* of what was written returns the bytes that were written.
C2_Persistence ==
  restarted =>
    /\ (/\ last.op = "open"
        /\ last.mode = FILE_OPEN_MODE
        /\ last.ret = 0
        /\ \E n \in 1 .. Len(file_list) : file_list[n].filename = last.name)
       => \E n \in 1 .. Len(file_list) :
            file_list[n].filename = last.name /\ file_list[n].opened
    /\ (/\ last.op = "read"
        /\ IsOpen(last.fd)
        /\ last.offset = 0
        /\ last.size = Len(shadow[FileOf(last.fd).filename]))
       => /\ last.ret = last.size
          /\ last.data = shadow[FileOf(last.fd).filename]

\* C3 (disjoint extents): the block ranges of two distinct non-empty file
\* records never intersect.
C3_DisjointExtents ==
  \A a \in NonEmpty, b \in NonEmpty :
    a # b => \/ ExtentEnd(file_list[a]) <= file_list[b].start_block
             \/ ExtentEnd(file_list[b]) <= file_list[a].start_block

\* two files whose extents lie in the opposite order of their creation, the
\* first of them right below the other, and a write that could not grow it
C3_Witness ==
  /\ \E a \in NonEmpty, b \in NonEmpty :
       /\ a < b
       /\ ExtentEnd(file_list[b]) = file_list[a].start_block
       /\ IsOpen(last.fd) /\ file_array[last.fd] = b
  /\ last.op = "write"
  /\ last.size > 0
  /\ last.ret = 0

\* C4 (in-bounds extents): every non-empty file record starts at or after
\* DIR_DATA_NUM_BLOCKS and ends at or before PARTITION_BLOCKS.
C4_InBounds ==
  \A n \in NonEmpty :
    /\ file_list[n].start_block >= DIR_DATA_NUM_BLOCKS
    /\ ExtentEnd(file_list[n]) <= PARTITION_BLOCKS

\* a file that owns the last block an extent can take, and a write at its end
\* that was refused
C4_Witness ==
  /\ last.op = "write"
  /\ IsOpen(last.fd)
  /\ FileOf(last.fd).num_blocks > 0
  /\ ExtentEnd(FileOf(last.fd)) = PARTITION_BLOCKS - 1
  /\ \A n \in NonEmpty : file_list[n].start_block <= FileOf(last.fd).start_block
  /\ last.offset = FileOf(last.fd).size
  /\ last.size > 0
  /\ last.ret = 0


\* the bitmap bit of descriptor d: the one get_unused_fd set when it returned
\* d and mark_fd_as_unused(d) clears
FdBit(d) == Bit(fd_bitmap[(d - 1) \div 8], (d - 1) % 8)
\* the step is a call of op
Calls(op) == last.op = "none" /\ last'.op = op

C5_Unique ==
  \A d1 \in 1 .. MAX_NUM_FD - 1, d2 \in 1 .. MAX_NUM_FD - 1 :
    (d1 # d2 /\ file_array[d1] # 0) => file_array[d1] # file_array[d2]
C5_OpenOfOpenFile ==
  (/\ Calls("open")
   /\ \E n \in 1 .. Len(file_list) :
        file_list[n].filename = last'.name /\ file_list[n].opened)
  => /\ last'.ret = 0
     /\ UNCHANGED << file_array, fd_bitmap, file_list, dir_data, dir_data_ptr, disk >>
\* C5 (descriptor uniqueness): a file record is referenced by at most one slot
\* of the descriptor table, and an open of a file that is open returns 0 and
\* leaves the descriptor table, the bitmap, the file list and the directory
\* (buffer and device) as they were.
C5_DescriptorUniqueness == [] C5_Unique /\ [][C5_OpenOfOpenFile]_vars

\* an open with mode CREATE of a file that is open was refused, another file
\* is open too
C5_Witness ==
  /\ last.op = "open"
  /\ last.mode = FILE_OPEN_CREATE_MODE
  /\ last.ret = 0
  /\ \E d1 \in 1 .. MAX_NUM_FD - 1, d2 \in 1 .. MAX_NUM_FD - 1 :
       /\ d1 # d2
       /\ IsOpen(d1) /\ IsOpen(d2)
       /\ FileOf(d1).filename = last.name

\* C6 (descriptor table consistency): for every descriptor d in
\* 1 .. MAX_NUM_FD - 1, a non-empty slot file_array[d] references a record
\* with opened = TRUE and the bitmap bit of d is set, and when the bitmap bit
\* of d is clear the slot is empty.
C6_TableConsistency ==
  \A d \in 1 .. MAX_NUM_FD - 1 :
    /\ file_array[d] # 0 =>
         /\ file_array[d] \in 1 .. Len(file_list)
         /\ file_list[file_array[d]].opened
         /\ FdBit(d) = 1
    /\ FdBit(d) = 0 => file_array[d] = 0

\* a close released a descriptor below one that is still open
C6_Witness ==
  /\ last.op = "close"
  /\ last.ret = 0
  /\ last.fd + 1 < MAX_NUM_FD
  /\ FdBit(last.fd) = 0
  /\ file_array[last.fd] = 0
  /\ IsOpen(last.fd + 1)

\* C7 (size consistency): every file record has size <= num_blocks *
\* STORAGE_BLOCK_SIZE, and num_blocks = 0 exactly when size = 0.
C7_SizeConsistency ==
  \A n \in 1 .. Len(file_list) :
    /\ file_list[n].size <= file_list[n].num_blocks * STORAGE_BLOCK_SIZE
    /\ file_list[n].num_blocks = 0 <=> file_list[n].size = 0

\* an empty file, and a file that a write just grew into a second block that
\* it fills only in part
C7_Witness ==
  /\ last.op = "write"
  /\ last.ret > 0
  /\ IsOpen(last.fd)
  /\ FileOf(last.fd).num_blocks = 2
  /\ FileOf(last.fd).size = last.offset + last.ret
  /\ FileOf(last.fd).size < 2 * STORAGE_BLOCK_SIZE
  /\ \E n \in 1 .. Len(file_list) : file_list[n].size = 0

\* C8 (directory round trip): once close_file_system has flushed the directory,
\* what initialize parses from the device is the in-memory file list: as many
\* records, in the same order, with the same filename, start_block, num_blocks,
\* size and dir_data_off, and opened = FALSE.
C8_DirectoryRoundTrip ==
  last.op = "shutdown" =>
    LET parsed == initialize_file_system(PARTITION_BLOCKS, disk).fl
    IN /\ Len(parsed) = Len(file_list)
       /\ \A n \in 1 .. Len(file_list) :
            /\ parsed[n].filename = file_list[n].filename
            /\ parsed[n].start_block = file_list[n].start_block
            /\ parsed[n].num_blocks = file_list[n].num_blocks
            /\ parsed[n].size = file_list[n].size
            /\ parsed[n].dir_data_off = file_list[n].dir_data_off
            /\ parsed[n].opened = FALSE

\* shutdown with two records with names of different lengths and different
\* sizes, the first one open, the second one allocated before the first
C8_Witness ==
  /\ last.op = "shutdown"
  /\ Len(file_list) = 2
  /\ Len(file_list[1].filename) # Len(file_list[2].filename)
  /\ file_list[1].opened
  /\ file_list[1].size > 0
  /\ file_list[2].size > file_list[1].size
  /\ file_list[2].start_block < file_list[1].start_block
  /\ file_list[2].dir_data_off = 6 + Len(file_list[1].filename) + 15

\* the blocks that hold bytes [0, f.size) of the file f
SizeRange(f) ==
  IF f.size = 0 THEN {}
  ELSE f.start_block ..
       f.start_block + ((f.size + STORAGE_BLOCK_SIZE - 1) \div STORAGE_BLOCK_SIZE) - 1
\* the call last is a write that asked for an expansion of f which was refused
ExpansionRefused(f) ==
  /\ last.offset <= f.size
  /\ f.size < U32(last.offset + last.size)

C9_FailedExpansion ==
  (/\ Calls("write")
   /\ IsOpen(last'.fd)
   /\ last'.offset <= FileOf(last'.fd).size
   /\ FileOf(last'.fd).size < U32(last'.offset + last'.size)
   /\ file_list'[file_array[last'.fd]].size # U32(last'.offset + last'.size))
  => /\ file_list' = file_list
     /\ dir_data' = dir_data
     /\ dir_data_ptr' = dir_data_ptr
     /\ \A b \in DOMAIN disk : b \notin SizeRange(FileOf(last'.fd)) => disk'[b] = disk[b]
     /\ last'.offset = FileOf(last'.fd).size => last'.ret = 0
\* C9 (failed expansion): a write that needs the file to grow and whose
\* expansion fails leaves the file record (start_block, num_blocks, size),
\* the directory buffer and the directory on the device unchanged, writes no
\* block outside the blocks of the file's current size, and returns 0 when
\* offset = file.size.
C9_FailedExpansionIsFrame == [][C9_FailedExpansion]_vars

\* a write into a file whose tail is taken by the next file: refused to grow,
\* it stored the bytes up to the size of the file
C9_Witness ==
  /\ last.op = "write"
  /\ IsOpen(last.fd)
  /\ ExpansionRefused(FileOf(last.fd))
  /\ last.ret > 0
  /\ \E n \in NonEmpty : file_list[n].start_block = ExtentEnd(FileOf(last.fd))

\* C10 as claimed: a write that crosses the end of the file with a blocked tail
\* stores and returns as many bytes as the allocated blocks of the file allow.
C10_Original ==
  (/\ last.op = "write"
   /\ IsOpen(last.fd)
   /\ ExpansionRefused(FileOf(last.fd)))
  => last.ret = MinOf(last.size,
                      FileOf(last.fd).num_blocks * STORAGE_BLOCK_SIZE - last.offset)

\* C10 as amended: a write that crosses the end of the file with a blocked tail
\* stores and returns the file.size - offset bytes that lie below the size of
\* the file; the rest of the last allocated block is not used.
C10_Amended ==
  (/\ last.op = "write"
   /\ IsOpen(last.fd)
   /\ ExpansionRefused(FileOf(last.fd)))
  => /\ last.ret = FileOf(last.fd).size - last.offset
     /\ \A i \in 0 .. last.ret - 1 :
          FileByte(FileOf(last.fd), last.offset + i)
            = WriteData(last.size)[i]

\* a refused expansion of a file whose last block has room beyond its size:
\* the write stored the bytes below the size
C10_Witness ==
  /\ last.op = "write"
  /\ IsOpen(last.fd)
  /\ ExpansionRefused(FileOf(last.fd))
  /\ last.ret > 0
  /\ FileOf(last.fd).size < FileOf(last.fd).num_blocks * STORAGE_BLOCK_SIZE
  /\ last.size > FileOf(last.fd).num_blocks * STORAGE_BLOCK_SIZE - last.offset

\* the call last' is a write on the open descriptor last'.fd that starts
\* beyond the end of the file
WriteBeyondEnd ==
  /\ Calls("write")
  /\ IsOpen(last'.fd)
  /\ last'.offset > FileOf(last'.fd).size
C11_SparseWrite ==
  WriteBeyondEnd
  => /\ last'.ret = 0
     /\ UNCHANGED << file_list, dir_data, dir_data_ptr, disk, file_array, fd_bitmap >>
\* C11 (no sparse write): a write with offset > file.size on an open file
\* returns 0 and changes no file record, no byte of the directory and no block
\* of the device, whatever its size.
C11_SparseWriteIsRefused == [][C11_SparseWrite]_vars

\* a refused write beyond the end of a non-empty file whose size makes
\* offset + size wrap around
C11_Witness ==
  /\ last.op = "write"
  /\ IsOpen(last.fd)
  /\ FileOf(last.fd).size > 0
  /\ last.offset > FileOf(last.fd).size
  /\ last.offset + last.size >= UINT32_MOD
  /\ last.ret = 0

\* the state of the file system without the result of the last call
fs_state == << partition_num_blocks, fd_bitmap, file_array, file_list, dir_data,
              dir_data_ptr, disk >>

C12_CloseOfOpen ==
  (Calls("close") /\ IsOpen(last'.fd))
  => LET idx == file_array[last'.fd]
     IN /\ last'.ret = 0
        /\ file_list' = [file_list EXCEPT ![idx].opened = FALSE]
        /\ file_array' = [file_array EXCEPT ![last'.fd] = 0]
        /\ Bit(fd_bitmap'[(last'.fd - 1) \div 8], (last'.fd - 1) % 8) = 0
        /\ \A d \in 1 .. MAX_NUM_FD :
             d # last'.fd =>
               Bit(fd_bitmap'[(d - 1) \div 8], (d - 1) % 8) = FdBit(d)
        /\ UNCHANGED << dir_data, dir_data_ptr, disk, partition_num_blocks >>
C12_NotOpen ==
  /\ (Calls("close") /\ ~ IsOpen(last'.fd))
     => last'.ret = ERR_INVALID /\ UNCHANGED fs_state
  /\ (Calls("read") /\ ~ IsOpen(last'.fd))
     => last'.ret = 0 /\ last'.data = << >>
  /\ (Calls("write") /\ ~ IsOpen(last'.fd))
     => last'.ret = 0 /\ UNCHANGED fs_state
\* C12 (close): close of an open descriptor returns 0, marks the record not
\* opened, empties the slot of the descriptor table and clears the bitmap bit
\* of the descriptor, and changes nothing else: not the other fields of the
\* record, not another record, not the directory, not a block.  On a
\* descriptor that is not open read and write return 0, close returns
\* ERR_INVALID, and a close or write of that kind changes no state.
C12_Close == [][C12_CloseOfOpen /\ C12_NotOpen]_vars

\* a close of a file with data succeeded while another file stays open: the
\* slot is empty, the bit is clear, the record is there and not opened
C12_Witness ==
  /\ last.op = "close"
  /\ last.ret = 0
  /\ last.fd \in 2 .. MAX_NUM_FD - 1
  /\ file_array[last.fd] = 0
  /\ FdBit(last.fd) = 0
  /\ \E n \in NonEmpty : ~ file_list[n].opened
  /\ \E d \in 1 .. MAX_NUM_FD - 1 : IsOpen(d)

\* the number of descriptors that are in use
InUse == Cardinality({d \in 1 .. MAX_NUM_FD - 1 : file_array[d] # 0})
ValidMode(mode) == mode = FILE_OPEN_MODE \/ mode = FILE_OPEN_CREATE_MODE

C13_OpenClosePair ==
  /\ (/\ Calls("open")
      /\ InUse = 0
      /\ Exists(last'.name)
      /\ ValidMode(last'.mode))
     => /\ last'.ret \in 1 .. MAX_NUM_FD - 1
        /\ file_array'[last'.ret] # 0
        /\ file_list'[file_array'[last'.ret]].filename = last'.name
  /\ (Calls("close") /\ IsOpen(last'.fd) /\ InUse = 1)
     => /\ last'.ret = 0
        /\ \A d \in 1 .. MAX_NUM_FD - 1 : file_array'[d] = 0
\* C13 (descriptor reuse): when the caller holds no descriptor, open of an
\* existing file returns a descriptor for it, and the close of that descriptor
\* returns 0 and leads back to a state without a descriptor in use; so any
\* number of open/close pairs in a row succeeds.
C13_DescriptorReuse == [][C13_OpenClosePair]_vars

\* the call last' is an open with mode CREATE of a new name whose record does
\* not fit into the directory
CreateBeyondCapacity ==
  /\ Calls("open")
  /\ last'.mode = FILE_OPEN_CREATE_MODE
  /\ ~ Exists(last'.name)
  /\ dir_data_ptr + Len(last'.name) + 15 > DIR_DATA_SIZE
C14_Refused ==
  CreateBeyondCapacity
  => /\ last'.ret = 0
     /\ UNCHANGED << file_list, dir_data, dir_data_ptr, file_array, disk >>
\* after initialize on the device d every record of the file list is there,
\* opens with mode OPEN and reads back as the bytes written to it
ReadableAfterRestart(d) ==
  LET i == initialize_file_system(PARTITION_BLOCKS, d)
  IN /\ Len(i.fl) = Len(file_list)
     /\ \A n \in 1 .. Len(file_list) :
          LET f == file_list[n]
              o == file_system_open_file(f.filename, FILE_OPEN_MODE, FALSE, i.fl, i.fa,
                                         i.bm, i.dir, i.ptr, i.disk)
              r == file_system_read_from_file(o.ret, f.size, 0, o.fl, o.fa, o.disk)
          IN /\ o.ret # 0
             /\ f.size = Len(shadow[f.filename])
             /\ f.size > 0 => r.ret = f.size /\ r.data = shadow[f.filename]
C14_StillValid ==
  (/\ last.op = "open"
   /\ last.mode = FILE_OPEN_CREATE_MODE
   /\ last.ret = 0
   /\ ~ Exists(last.name)
   /\ dir_data_ptr + Len(last.name) + 15 > DIR_DATA_SIZE)
  => ReadableAfterRestart(disk)
\* C14 (directory capacity): open with mode CREATE of a new name whose record
\* does not fit (dir_data_ptr + strlen + 15 > DIR_DATA_SIZE) returns 0 and
\* leaves the file list, the directory buffer with its file count,
\* dir_data_ptr, the descriptor table and the device as they were; after it,
\* initialize on the device finds every file, each opens and reads back.
C14_DirectoryCapacity == [] C14_StillValid /\ [][C14_Refused]_vars

\* a create refused for lack of room in the directory while a descriptor is in
\* use and a file has data
C14_Witness ==
  /\ last.op = "open"
  /\ last.mode = FILE_OPEN_CREATE_MODE
  /\ last.ret = 0
  /\ ~ Exists(last.name)
  /\ dir_data_ptr + Len(last.name) + 15 > DIR_DATA_SIZE
  /\ InUse > 0
  /\ \E n \in 1 .. Len(file_list) : file_list[n].size > 0

\* the blocks that a write of size bytes at offset asks expand_existing_file
\* for: 0 when the file f need not grow or grows inside its last block
NeededBlocks(f, size, offset) ==
  LET needed_size == U32(offset + size) - f.size
      leftover == STORAGE_BLOCK_SIZE - (f.size % STORAGE_BLOCK_SIZE)
  IN IF f.size = 0 \/ offset > f.size \/ ~ (f.size < U32(offset + size)) THEN 0
     ELSE IF leftover # STORAGE_BLOCK_SIZE /\ leftover >= needed_size THEN 0
     ELSE blocks_needed(needed_size)
\* the tail range of f for needed blocks is free of other files and inside
\* the partition
TailFree(idx, needed) ==
  LET f == file_list[idx]
  IN /\ ~ \E n \in 1 .. Len(file_list) :
            /\ n # idx
            /\ file_list[n].start_block >= ExtentEnd(f)
            /\ file_list[n].start_block < ExtentEnd(f) + needed
     /\ ExtentEnd(f) + needed <= PARTITION_BLOCKS
C15_Expand ==
  (/\ Calls("write")
   /\ IsOpen(last'.fd)
   /\ NeededBlocks(FileOf(last'.fd), last'.size, last'.offset) > 0)
  => LET idx == file_array[last'.fd]
         f == file_list[idx]
         needed == NeededBlocks(f, last'.size, last'.offset)
     IN IF TailFree(idx, needed)
        THEN /\ file_list'[idx].num_blocks = f.num_blocks + needed
             /\ file_list'[idx].start_block = f.start_block
             /\ \A b \in ExtentEnd(f) .. ExtentEnd(f) + needed - 1 :
                  \A k \in 0 .. STORAGE_BLOCK_SIZE - 1 :
                    LET pos == (b - f.start_block) * STORAGE_BLOCK_SIZE + k
                    IN disk'[b][k] = IF pos >= last'.offset /\ pos < last'.offset + last'.ret
                                     THEN WriteData(last'.size)[pos - last'.offset]
                                     ELSE 0
        ELSE file_list'[idx] = f
\* C15 (expand_existing_file): growing a non-empty file by needed blocks
\* fails, and leaves the record as it is, exactly when another file starts in
\* the tail range or the tail range ends beyond PARTITION_BLOCKS; otherwise,
\* also when the tail range ends at PARTITION_BLOCKS, the new blocks are
\* zero-filled and added to num_blocks.
C15_ExpandExisting == [][C15_Expand]_vars

\* the end of the highest extent, or of the directory when no file has blocks
MaxEnd ==
  SetMax({DIR_DATA_NUM_BLOCKS} \cup {ExtentEnd(file_list[n]) : n \in 1 .. Len(file_list)})
C16_Placement == empty_start_block(file_list, 1, DIR_DATA_NUM_BLOCKS) = MaxEnd
C16_Allocates ==
  (/\ Calls("write")
   /\ IsOpen(last'.fd)
   /\ FileOf(last'.fd).size = 0
   /\ file_list'[file_array[last'.fd]].num_blocks > 0)
  => file_list'[file_array[last'.fd]].start_block = MaxEnd
\* C16 (allocate_empty): in every reachable state the start block that
\* expand_empty_file chooses is max(DIR_BLOCKS, highest end of any file's
\* extent), whatever the order of the records in the list, and a write that
\* gives an empty file its first extent places it there.
C16_AllocateEmpty == [] C16_Placement /\ [][C16_Allocates]_vars
\* the first-created file has just got its extent, behind the extent of the
\* file created after it
C16_Witness ==
  /\ last.op = "write" /\ last.ret > 0 /\ nwrites = 2
  /\ IsOpen(last.fd) /\ file_array[last.fd] = 1
  /\ Len(file_list) = 2
  /\ file_list[2].num_blocks > 0
  /\ file_list[1].start_block = ExtentEnd(file_list[2])

\* the record of the file named filename
RecordOf(filename) ==
  file_list[CHOOSE n \in 1 .. Len(file_list) : file_list[n].filename = filename]
C17_OpenFails ==
  (/\ Calls("open")
   /\ ValidMode(last'.mode)
   /\ Exists(last'.name)
   /\ ~ RecordOf(last'.name).opened
   /\ last'.ret = 0)
  => InUse = MAX_NUM_FD - 1
\* C17 (descriptor range): only descriptor 0 is reserved, so open of an
\* existing file that is not open returns 0 only when all of the
\* MAX_FD - 1 descriptors 1 .. MAX_FD - 1 are in use.
C17_OnlyZeroReserved == [][C17_OpenFails]_vars

C18_Step ==
  /\ Len(file_list') >= Len(file_list)
  /\ \A n \in 1 .. Len(file_list) :
       /\ file_list'[n].filename = file_list[n].filename
       /\ file_list'[n].size >= file_list[n].size
       /\ file_list'[n].num_blocks >= file_list[n].num_blocks
       /\ file_list[n].num_blocks > 0
          => file_list'[n].start_block = file_list[n].start_block
\* C18 (monotonic growth): no step, initialize on the same device included,
\* removes a record, changes a filename, lowers a size or a num_blocks, or
\* moves the extent of a record that has blocks.
C18_MonotonicGrowth == [][C18_Step]_vars
\* initialize has returned with both files in the list, the first of them
\* with the two-block extent and the size that the writes gave it
C18_Witness ==
  /\ last.op = "initialize"
  /\ Len(file_list) = 2
  /\ file_list[1].num_blocks = 2
  /\ file_list[1].size > STORAGE_BLOCK_SIZE

\* the offset behind the encodings of the first n records of the list
RECURSIVE RecordsEnd(_)
RecordsEnd(n) ==
  IF n = 0 THEN 6 ELSE RecordsEnd(n - 1) + Len(file_list[n].filename) + 15
\* C19 (directory buffer): in every state from the first initialize on, the
\* buffer starts with the signature $%^&, bytes [4,6) hold the number of
\* records of the file list, dir_data_ptr is 6 plus the encoded sizes
\* strlen(filename) + 15 of all records and at most DIR_DATA_SIZE, and every
\* record's dir_data_off is where its encoding (length, then name) begins.
C19_DirectoryWellFormed ==
  /\ << dir_data[0], dir_data[1], dir_data[2], dir_data[3] >> = << 36, 37, 94, 38 >>
  /\ Get16(dir_data, 4) = Len(file_list)
  /\ dir_data_ptr = RecordsEnd(Len(file_list))
  /\ dir_data_ptr <= DIR_DATA_SIZE
  /\ \A n \in 1 .. Len(file_list) :
       LET f == file_list[n]
       IN /\ f.dir_data_off = RecordsEnd(n - 1)
          /\ Get16(dir_data, f.dir_data_off) = Len(f.filename)
          /\ CStrAt(dir_data, f.dir_data_off + 2) = f.filename
\* initialize has read back a directory that has no room for another record
C19_Witness ==
  /\ last.op = "initialize"
  /\ restarted
  /\ Len(file_list) = Cardinality(FdNames) - 1
  /\ dir_data_ptr + 16 > DIR_DATA_SIZE

C20_FailedOpen ==
  (Calls("open") /\ last'.ret = 0)
  => UNCHANGED << file_list, dir_data, dir_data_ptr, disk, file_array, fd_bitmap >>
\* C20 (failed open): an open that returns 0 leaves the file list, the
\* directory buffer, the device, the descriptor table and the descriptor
\* bitmap as they were before the call.
C20_FailedOpenHasNoEffect == [][C20_FailedOpen]_vars

\* the data blocks whose contents the step changes
BlocksChanged == {b \in DOMAIN disk : b >= DIR_DATA_NUM_BLOCKS /\ disk'[b] # disk[b]}
\* the blocks that hold bytes [offset, offset + count) of the file f
BlocksOf(f, offset, count) ==
  {f.start_block + (pos \div STORAGE_BLOCK_SIZE) : pos \in offset .. offset + count - 1}
Extent(f) == f.start_block .. ExtentEnd(f) - 1
C21_Read ==
  (Calls("read") /\ IsOpen(last'.fd))
  => LET f == FileOf(last'.fd)
     IN /\ last'.ret > 0 => last'.offset + last'.ret <= f.size
        /\ BlocksOf(f, last'.offset, last'.ret) \subseteq Extent(f)
C21_Write ==
  (Calls("write") /\ IsOpen(last'.fd))
  => LET f == file_list'[file_array[last'.fd]]
     IN /\ last'.ret > 0 => last'.offset + last'.ret <= f.size
        /\ BlocksOf(f, last'.offset, last'.ret) \subseteq Extent(f)
        /\ BlocksChanged \subseteq Extent(f)
\* C21 (transfer bounds): for every offset and size, those whose sum wraps
\* around included, a read or write on an open file transfers no byte past
\* file.size and touches no data block outside the file's extent
\* [start_block, start_block + num_blocks).
C21_TransferInBounds == [][C21_Read /\ C21_Write]_vars

====
